---- MODULE Spec2Model ----
(***************************************************************************)
(* Translation index and file synchronisation engine of i18n-mcp.          *)
(*                                                                         *)
(* Strings that the code takes apart (key paths, language codes, cache     *)
(* keys, prefixes) are sequences of one-character strings, compared by     *)
(* UTF-16 code unit as JavaScript compares them; so are file paths.        *)
(* Translation values are opaque and stay TLA+ strings.  Time advances in  *)
(* steps of the watcher's debounce interval.                               *)
(***************************************************************************)
EXTENDS Integers, Sequences, FiniteSets, TLC

VARIABLES
    flatIndex,      \* TranslationIndex.flatIndex: key path -> (language -> entry)
    cache,          \* TranslationIndex.cache, least recently used first
    sortedKeys,     \* TranslationIndex.sortedKeys
    keysDirty,      \* TranslationIndex.keysDirty
    events,         \* events emitted by the last operation, in order
    ret,            \* the last operation and what it returned or threw
    serverSource,   \* which source of TranslationMCPServer runs
    autoSync,       \* config.autoSync
    files,          \* the translation directory: file path -> JSON document
    fsEvents,       \* chokidar: time until a written file is reported, per path
    watchTimer,     \* TranslationFileWatcher.debouncedProcessChange: pending call
    processedFiles, \* TranslationFileWatcher.processedFiles and its removal timers
    watchTasks,     \* processFileChange calls that await their file
    autoSyncTimeout,\* TranslationMCPServer.autoSyncTimeout: time left, or none
    syncPasses,     \* performAutoSync calls in progress
    calls,          \* set and delete calls made so far
    edits,          \* hand edits made so far
    sinceCall,      \* time since the last set or delete event of the index
    burst,          \* the set/delete events that follow each other within the window
    edited,         \* per path, the leaves a hand edit wrote that memory has not seen
    removed,        \* per path, the leaves a hand edit took out of the file
    isRefreshing,   \* TranslationMCPServer.isRefreshing
    loader,         \* initializeIndex in progress: who runs it, the files left, and
                    \* the calls, changes and watcher tasks when it began
    stopped         \* TranslationMCPServer.stop has resolved

indexVars == <<flatIndex, cache, sortedKeys, keysDirty, events>>
syncVars == <<serverSource, autoSync, files, fsEvents, watchTimer, processedFiles, watchTasks,
              autoSyncTimeout, syncPasses, calls, edits, sinceCall, burst, edited, removed,
        isRefreshing, loader, stopped>>
vars == <<flatIndex, cache, sortedKeys, keysDirty, events, ret, serverSource, autoSync, files,
          fsEvents, watchTimer, processedFiles, watchTasks, autoSyncTimeout,
          syncPasses, calls, edits, sinceCall, burst, edited, removed,
        isRefreshing, loader, stopped>>

----------------------------------------------------------------------------
(* Bounds of the model *)

MaxBatch == 2          \* operations per batchUpdate call
MaxCacheSize == 2      \* capacity of the read cache (config.maxCacheSize)
MaxPrefixKeys == 3     \* keys in the index of a prefix search
MaxPrefixLen == 2      \* characters of a searched prefix
MaxCalls == 2          \* set and delete calls while the server runs
MaxChanges == 2        \* changes of language files from outside while the watcher runs
MaxEdits == 1          \* hand edits of language files while the server runs

----------------------------------------------------------------------------
(* Strings *)

\* UTF-16 code units of the characters the model uses
CharCode(c) ==
    CASE c = "-" -> 45
      [] c = "." -> 46
      [] c = ":" -> 58
      [] c = "a" -> 97
      [] c = "b" -> 98
      [] c = "e" -> 101
      [] c = "j" -> 106
      [] c = "l" -> 108
      [] c = "n" -> 110
      [] c = "o" -> 111
      [] c = "s" -> 115
      [] c = "uffff" -> 65535

\* a < b for JavaScript strings
RECURSIVE StrLess(_, _)
StrLess(a, b) ==
    IF b = <<>> THEN FALSE
    ELSE IF a = <<>> THEN TRUE
    ELSE IF CharCode(Head(a)) < CharCode(Head(b)) THEN TRUE
    ELSE IF CharCode(Head(a)) > CharCode(Head(b)) THEN FALSE
    ELSE StrLess(Tail(a), Tail(b))

StartsWith(s, p) == Len(p) <= Len(s) /\ SubSeq(s, 1, Len(p)) = p
EndsWith(s, p) == Len(p) <= Len(s) /\ SubSeq(s, Len(s) - Len(p) + 1, Len(s)) = p
Includes(s, p) == \E i \in 1..(Len(s) - Len(p) + 1) : SubSeq(s, i, i + Len(p) - 1) = p

\* Array.prototype.sort() of a set of strings
RECURSIVE SortStrings(_)
SortStrings(S) ==
    IF S = {} THEN <<>>
    ELSE LET m == CHOOSE x \in S : \A y \in S \ {x} : StrLess(x, y)
         IN <<m>> \o SortStrings(S \ {m})

Range(s) == {s[i] : i \in 1..Len(s)}

----------------------------------------------------------------------------
(* PathParser *)

AllowedChars ==
    {"a", "b", "c", "d", "e", "f", "g", "h", "i", "j", "k", "l", "m",
     "n", "o", "p", "q", "r", "s", "t", "u", "v", "w", "x", "y", "z",
     "A", "B", "C", "D", "E", "F", "G", "H", "I", "J", "K", "L", "M",
     "N", "O", "P", "Q", "R", "S", "T", "U", "V", "W", "X", "Y", "Z",
     "0", "1", "2", "3", "4", "5", "6", "7", "8", "9", ".", "_", "-"}

isValid(path) ==
    /\ path # <<>>
    /\ \A i \in 1..Len(path) : path[i] \in AllowedChars
    /\ ~Includes(path, <<".", ".">>)
    /\ ~(StartsWith(path, <<".">>) \/ EndsWith(path, <<".">>))

----------------------------------------------------------------------------
(* Inputs *)

NoLang == <<>>              \* the language argument left out (undefined or '')
NoValue == "novalue"        \* the value of a batch operation left out
NoPath == <<>>              \* metadata?.file || '' of a set call without metadata
Languages == {<<"e", "n">>, <<"a", "l", "l">>}
Values == {"x", "y"}
ValidKeys == {<<"a">>, <<"a", ".", "b">>}
InvalidKeys == {<<>>, <<".", "a">>, <<"a", ".">>, <<"a", ".", ".", "b">>, <<"a", ":", "b">>}
KeyInputs == ValidKeys \cup InvalidKeys

----------------------------------------------------------------------------
(* Maps *)

Put(f, k, v) == [x \in (DOMAIN f) \cup {k} |-> IF x = k THEN v ELSE f[x]]
Remove(f, k) == [x \in (DOMAIN f) \ {k} |-> f[x]]
EmptyMap == <<>>

----------------------------------------------------------------------------
(* LRUCache: a sequence of [key, val], least recently used first.  A cached *)
(* val is tagged: an entry, a whole IndexedTranslation, or undefined.       *)

EntryVal(e) == [kind |-> "entry", v |-> e]
AllVal(t) == [kind |-> "all", v |-> t]
UndefVal == [kind |-> "undefined", v |-> <<>>]

CacheKeys(c) == {c[i].key : i \in 1..Len(c)}
CacheHas(c, key) == key \in CacheKeys(c)
CacheDelete(c, key) == SelectSeq(c, LAMBDA r : r.key # key)
CachePeek(c, key) == (CHOOSE i \in 1..Len(c) : c[i].key = key)
CacheGet(c, key) == c[CachePeek(c, key)].val
CacheTouch(c, key) == CacheDelete(c, key) \o <<c[CachePeek(c, key)]>>
CacheSet(c, key, val) ==
    LET added == CacheDelete(c, key) \o <<[key |-> key, val |-> val]>>
    IN IF Len(added) > MaxCacheSize THEN Tail(added) ELSE added

----------------------------------------------------------------------------
(* TranslationIndex, on a working state ix:                                 *)
(*   flat   key path -> object id      (the Map flatIndex)                  *)
(*   heap   object id -> (language -> entry)   (the IndexedTranslation      *)
(*          objects the Map's values refer to)                              *)
(*   next   the number of objects created so far                            *)
(*   cache, sorted, dirty, ev   as the variables                            *)
(*   out    what the last call returned ("IndexError" when it threw)        *)

ObjId(k, n) == <<k, n>>

Working(flat, c, sorted, dirty) ==
    [flat |-> [k \in DOMAIN flat |-> ObjId(k, 0)],
     heap |-> [o \in {ObjId(k, 0) : k \in DOMAIN flat} |-> flat[o[1]]],
     next |-> 1, cache |-> c, sorted |-> sorted, dirty |-> dirty,
     ev |-> <<>>, out |-> "none"]

\* the Map as key path -> (language -> entry)
Store(ix) == [k \in DOMAIN ix.flat |-> ix.heap[ix.flat[k]]]

CacheKey(keyPath, language) ==
    keyPath \o <<":">> \o (IF language # NoLang THEN language ELSE <<"a", "l", "l">>)

invalidateCache(c, keyPath) ==
    SelectSeq(c, LAMBDA r : ~(StartsWith(r.key, keyPath \o <<":">>)
                              \/ r.key = keyPath \o <<":", "a", "l", "l">>))

IxHas(ix, keyPath, language) ==
    /\ keyPath \in DOMAIN ix.flat
    /\ (language # NoLang => language \in DOMAIN ix.heap[ix.flat[keyPath]])

IxGet(ix, keyPath, language) ==
    LET cacheKey == CacheKey(keyPath, language)
    IN IF CacheHas(ix.cache, cacheKey)
       THEN [ix EXCEPT !.out = CacheGet(ix.cache, cacheKey),
                       !.cache = CacheTouch(ix.cache, cacheKey)]
       ELSE IF keyPath \notin DOMAIN ix.flat
       THEN [ix EXCEPT !.out = UndefVal]
       ELSE LET entry == ix.heap[ix.flat[keyPath]]
                result == IF language # NoLang
                          THEN (IF language \in DOMAIN entry
                                THEN EntryVal(entry[language]) ELSE UndefVal)
                          ELSE AllVal(entry)
            IN [ix EXCEPT !.out = result,
                          !.cache = CacheSet(ix.cache, cacheKey, result)]

\* set without marking the sorted key list dirty for a new key
IxSetNeverDirty(ix, keyPath, language, value, file) ==
    IF ~isValid(keyPath)
    THEN [ix EXCEPT !.out = "IndexError"]
    ELSE LET isNew == keyPath \notin DOMAIN ix.flat
             obj == IF isNew THEN ObjId(keyPath, ix.next) ELSE ix.flat[keyPath]
             old == IF isNew THEN EmptyMap ELSE ix.heap[obj]
         IN [ix EXCEPT !.flat = Put(ix.flat, keyPath, obj),
                       !.heap = Put(ix.heap, obj,
                                    Put(old, language, [value |-> value, file |-> file])),
                       !.next = IF isNew THEN ix.next + 1 ELSE ix.next,
                       !.cache = invalidateCache(ix.cache, keyPath),
                       !.ev = Append(ix.ev, "set"),
                       !.out = "ok"]

\* set without the validation of the key path
IxSetUnvalidated(ix, keyPath, language, value, file) ==
    LET obj == IF keyPath \notin DOMAIN ix.flat
               THEN ObjId(keyPath, ix.next) ELSE ix.flat[keyPath]
        old == IF keyPath \notin DOMAIN ix.flat THEN EmptyMap ELSE ix.heap[obj]
    IN [ix EXCEPT !.flat = Put(ix.flat, keyPath, obj),
                  !.heap = Put(ix.heap, obj,
                               Put(old, language, [value |-> value, file |-> file])),
                  !.next = ix.next + 1,
                  !.dirty = TRUE,
                  !.cache = invalidateCache(ix.cache, keyPath),
                  !.ev = Append(ix.ev, "set"),
                  !.out = "ok"]

IxSet(ix, keyPath, language, value, file) ==
    IF ~isValid(keyPath)
    THEN [ix EXCEPT !.out = "IndexError"]
    ELSE LET isNew == keyPath \notin DOMAIN ix.flat
             obj == IF isNew THEN ObjId(keyPath, ix.next) ELSE ix.flat[keyPath]
             old == IF isNew THEN EmptyMap ELSE ix.heap[obj]
         IN [ix EXCEPT !.flat = Put(ix.flat, keyPath, obj),
                       !.heap = Put(ix.heap, obj,
                                    Put(old, language, [value |-> value, file |-> file])),
                       !.next = IF isNew THEN ix.next + 1 ELSE ix.next,
                       !.dirty = ix.dirty \/ isNew,
                       !.cache = invalidateCache(ix.cache, keyPath),
                       !.ev = Append(ix.ev, "set"),
                       !.out = "ok"]

\* delete that keeps a key whose last language it removed
IxDeleteKeepEmpty(ix, keyPath, language) ==
    IF keyPath \notin DOMAIN ix.flat
    THEN [ix EXCEPT !.out = FALSE]
    ELSE LET obj == ix.flat[keyPath]
             entry == ix.heap[obj]
         IN IF language # NoLang
            THEN IF language \in DOMAIN entry
                 THEN [ix EXCEPT !.heap = Put(ix.heap, obj, Remove(entry, language)),
                                 !.cache = invalidateCache(ix.cache, keyPath),
                                 !.ev = Append(ix.ev, "delete"),
                                 !.out = TRUE]
                 ELSE [ix EXCEPT !.out = FALSE]
            ELSE [ix EXCEPT !.flat = Remove(ix.flat, keyPath),
                            !.dirty = TRUE,
                            !.cache = invalidateCache(ix.cache, keyPath),
                            !.ev = Append(ix.ev, "delete"),
                            !.out = TRUE]

IxDelete(ix, keyPath, language) ==
    IF keyPath \notin DOMAIN ix.flat
    THEN [ix EXCEPT !.out = FALSE]
    ELSE LET obj == ix.flat[keyPath]
             entry == ix.heap[obj]
             left == Remove(entry, language)
             emptied == DOMAIN left = {}
         IN IF language # NoLang
            THEN IF language \in DOMAIN entry
                 THEN [ix EXCEPT !.heap = Put(ix.heap, obj, left),
                                 !.flat = IF emptied THEN Remove(ix.flat, keyPath)
                                          ELSE ix.flat,
                                 !.dirty = ix.dirty \/ emptied,
                                 !.cache = invalidateCache(ix.cache, keyPath),
                                 !.ev = Append(ix.ev, "delete"),
                                 !.out = TRUE]
                 ELSE [ix EXCEPT !.out = FALSE]
            ELSE [ix EXCEPT !.flat = Remove(ix.flat, keyPath),
                            !.dirty = TRUE,
                            !.cache = invalidateCache(ix.cache, keyPath),
                            !.ev = Append(ix.ev, "delete"),
                            !.out = TRUE]

IxClear(ix) ==
    [ix EXCEPT !.flat = EmptyMap, !.cache = <<>>, !.sorted = <<>>, !.dirty = FALSE,
               !.ev = Append(ix.ev, "clear"), !.out = "ok"]

ensureSortedKeys(ix) ==
    IF ix.dirty
    THEN [ix EXCEPT !.sorted = SortStrings(DOMAIN ix.flat), !.dirty = FALSE]
    ELSE ix

IxGetKeys(ix) ==
    LET s == ensureSortedKeys(ix) IN [s EXCEPT !.out = s.sorted]

----------------------------------------------------------------------------
(* TranslationSearchEngine.searchByPrefix; indexes count from 0 as in the   *)
(* code, sortedKeys[i + 1] is the code's sortedKeys[i]                      *)

Sentinel == <<"uffff">>
Slice(s, start, end) == SubSeq(s, start + 1, end)

RECURSIVE BinarySearchLoop(_, _, _, _)
BinarySearchLoop(keys, bound, left, right) ==
    IF left < right
    THEN LET mid == (left + right) \div 2
             key == keys[mid + 1]
         IN IF key # <<>> /\ StrLess(key, bound)
            THEN BinarySearchLoop(keys, bound, mid + 1, right)
            ELSE BinarySearchLoop(keys, bound, left, mid)
    ELSE left

binarySearchStart(keys, prefix) == BinarySearchLoop(keys, prefix, 0, Len(keys))

\* the end search without the sentinel appended to the prefix
binarySearchEndNoSentinel(keys, prefix) ==
    BinarySearchLoop(keys, prefix, 0, Len(keys)) - 1

binarySearchEnd(keys, prefix) ==
    LET prefixEnd == prefix \o Sentinel
    IN BinarySearchLoop(keys, prefixEnd, 0, Len(keys)) - 1

searchByPrefix(keys, prefix) ==
    LET startIdx == binarySearchStart(keys, prefix)
        endIdx == binarySearchEnd(keys, prefix)
    IN Slice(keys, startIdx, endIdx + 1)

IxSearchByPrefix(ix, prefix) ==
    LET s == ensureSortedKeys(ix) IN [s EXCEPT !.out = searchByPrefix(s.sorted, prefix)]

----------------------------------------------------------------------------
(* TranslationBatchOperations.batchUpdate *)

SetOp(k, l, v) == [type |-> "set", keyPath |-> k, language |-> l, value |-> v]
DeleteOp(k, l) == [type |-> "delete", keyPath |-> k, language |-> l, value |-> NoValue]

\* one pass of the for loop: acc is [ix, errors]
ApplyOperation(acc, operation) ==
    IF operation.type = "set"
    THEN IF operation.language = NoLang \/ operation.value = NoValue
         THEN [acc EXCEPT !.errors = acc.errors + 1]
         ELSE LET r == IxSet(acc.ix, operation.keyPath, operation.language,
                             operation.value, NoPath)
              IN [ix |-> r,
                  errors |-> IF r.out = "IndexError" THEN acc.errors + 1 ELSE acc.errors]
    ELSE [acc EXCEPT !.ix = IxDelete(acc.ix, operation.keyPath, operation.language)]

RECURSIVE ApplyOperations(_, _)
ApplyOperations(acc, operations) ==
    IF operations = <<>> THEN acc
    ELSE ApplyOperations(ApplyOperation(acc, Head(operations)), Tail(operations))

\* the invalidateCache callback TranslationIndex.batchUpdate passes
BatchInvalidate(ix) == [ix EXCEPT !.dirty = TRUE, !.cache = <<>>]

batchUpdate(ix, operations) ==
    LET backup == ix.flat
        done == ApplyOperations([ix |-> ix, errors |-> 0], operations)
    IN IF done.errors > 0
       THEN [BatchInvalidate([done.ix EXCEPT !.flat = backup]) EXCEPT !.out = FALSE]
       ELSE [BatchInvalidate(done.ix) EXCEPT
                !.ev = Append(done.ix.ev, "batchUpdate"), !.dirty = TRUE, !.out = TRUE]

----------------------------------------------------------------------------
(* JSON documents as jsonc-parser's parseTree and JSON.parse give them: a   *)
(* node is a string or an object with named children.  Absent stands for a  *)
(* file that does not exist and for a node that is not there, Invalid for a *)
(* file whose text is not JSON.                                             *)

StringNode(v) == [type |-> "string", value |-> v, children |-> EmptyMap]
ObjectNode(children) == [type |-> "object", value |-> "", children |-> children]
Absent == [type |-> "absent", value |-> "", children |-> EmptyMap]
Invalid == [type |-> "invalid", value |-> "", children |-> EmptyMap]

\* JsonOperations.parseFile gives data: the file is there and holds an object
Parses(file) == file.type = "object"

\* keyPath.split('.')
RECURSIVE SplitLoop(_, _, _)
SplitLoop(s, part, parts) ==
    IF s = <<>> THEN Append(parts, part)
    ELSE IF Head(s) = "."
    THEN SplitLoop(Tail(s), <<>>, Append(parts, part))
    ELSE SplitLoop(Tail(s), Append(part, Head(s)), parts)

Split(keyPath) == SplitLoop(keyPath, <<>>, <<>>)

\* findNodeAtLocation
RECURSIVE NodeAt(_, _)
NodeAt(node, parts) ==
    IF parts = <<>> THEN node
    ELSE IF node.type # "object" \/ Head(parts) \notin DOMAIN node.children THEN Absent
    ELSE NodeAt(node.children[Head(parts)], Tail(parts))

NoConflict == [conflict |-> FALSE, path |-> <<>>]

RECURSIVE FindConflictLoop(_, _, _)
FindConflictLoop(current, keyParts, conflictPath) ==
    IF keyParts = <<>> THEN NoConflict
    ELSE IF current.type # "object"
    THEN [conflict |-> TRUE, path |-> conflictPath]
    ELSE IF Head(keyParts) \notin DOMAIN current.children
    THEN NoConflict
    ELSE LET valueNode == current.children[Head(keyParts)]
             found == Append(conflictPath, Head(keyParts))
         IN IF valueNode.type = "string"
            THEN [conflict |-> TRUE, path |-> found]
            ELSE FindConflictLoop(valueNode, Tail(keyParts), found)

findConflictingPath(parseTree, keyParts) == FindConflictLoop(parseTree, keyParts, <<>>)

\* the value modify puts under the segments the document lacks
RECURSIVE Wrap(_, _)
Wrap(parts, value) ==
    IF parts = <<>> THEN StringNode(value)
    ELSE ObjectNode(Head(parts) :> Wrap(Tail(parts), value))

\* modify finds an object to put the property in
RECURSIVE CanModify(_, _)
CanModify(node, parts) ==
    \/ parts = <<>>
    \/ /\ node.type = "object"
       /\ Head(parts) \in DOMAIN node.children
            => CanModify(node.children[Head(parts)], Tail(parts))

RECURSIVE SetNode(_, _, _)
SetNode(node, parts, value) ==
    IF parts = <<>> THEN StringNode(value)
    ELSE LET p == Head(parts)
         IN ObjectNode(Put(node.children, p,
                IF p \in DOMAIN node.children
                THEN SetNode(node.children[p], Tail(parts), value)
                ELSE Wrap(Tail(parts), value)))

\* applyEdits(text, modify(text, keyParts, value)), or the error modify throws
modify(text, keyParts, value) ==
    IF CanModify(text, keyParts)
    THEN [threw |-> FALSE, text |-> SetNode(text, keyParts, value)]
    ELSE [threw |-> TRUE, text |-> text]

\* the leaves of a parsed file as key path -> value
RECURSIVE Leaves(_, _)
Leaves(node, prefix) ==
    IF node.type = "object"
    THEN UNION {Leaves(node.children[key],
                       IF prefix # <<>> THEN prefix \o <<".">> \o key ELSE key)
                : key \in DOMAIN node.children}
    ELSE IF node.type = "string"
    THEN {[keyPath |-> prefix, value |-> node.value]}
    ELSE {}

\* the key paths of the leaves of a parsed file
LeafKeys(node) == {leaf.keyPath : leaf \in Leaves(node, <<>>)}

----------------------------------------------------------------------------
(* Files of the translation directory *)

SyncLanguages == {<<"e", "n">>, <<"e", "s">>}
JsonSuffix == <<".", "j", "s", "o", "n">>
FilePath(language) == language \o JsonSuffix

\* filename.replace('.json', '')
extractLanguageFromPath(filePath) ==
    IF Includes(filePath, JsonSuffix)
    THEN LET i == CHOOSE j \in 1..Len(filePath) :
                    /\ SubSeq(filePath, j, j + Len(JsonSuffix) - 1) = JsonSuffix
                    /\ \A h \in 1..(j - 1) :
                         SubSeq(filePath, h, h + Len(JsonSuffix) - 1) # JsonSuffix
         IN SubSeq(filePath, 1, i - 1)
              \o SubSeq(filePath, i + Len(JsonSuffix), Len(filePath))
    ELSE filePath

Paths == {FilePath(l) : l \in SyncLanguages}

----------------------------------------------------------------------------
(* FileProcessor *)

RECURSIVE KeysOfFile(_, _, _, _, _)
KeysOfFile(ix, keys, filePath, language, keysToDelete) ==
    IF keys = <<>> THEN [ix |-> ix, keys |-> keysToDelete]
    ELSE LET r == IxGet(ix, Head(keys), language)
             mine == r.out.kind = "entry" /\ r.out.v.file = filePath
         IN KeysOfFile(r, Tail(keys), filePath, language,
                       IF mine THEN Append(keysToDelete, Head(keys)) ELSE keysToDelete)

RECURSIVE DeleteKeys(_, _, _)
DeleteKeys(ix, keys, language) ==
    IF keys = <<>> THEN ix
    ELSE DeleteKeys(IxDelete(ix, Head(keys), language), Tail(keys), language)

clearFileFromIndex(ix, filePath, language) ==
    LET listed == IxGetKeys(ix)
        found == KeysOfFile(listed, listed.out, filePath, language, <<>>)
    IN DeleteKeys(found.ix, found.keys, language)

\* the set calls of the leaves, in ascending order of their key paths; a set
\* that throws ends the loop
RECURSIVE SetLeaves(_, _, _, _, _)
SetLeaves(ix, keys, translations, language, filePath) ==
    IF keys = <<>> THEN [ix EXCEPT !.out = "ok"]
    ELSE LET r == IxSet(ix, Head(keys), language,
                        NodeAt(translations, Split(Head(keys))).value, filePath)
         IN IF r.out = "IndexError" THEN r
            ELSE SetLeaves(r, Tail(keys), translations, language, filePath)

updateIndexFromTranslations(ix, translations, language, filePath) ==
    SetLeaves(ix, SortStrings(LeafKeys(translations)),
              translations, language, filePath)

\* processTranslationFile once parseFile has given data
processTranslationFile(ix, data, filePath, language) ==
    updateIndexFromTranslations(clearFileFromIndex(ix, filePath, language),
                                data, language, filePath)

\* TranslationFileWatcher.initializeIndex over the files that exist
RECURSIVE initializeIndex(_, _, _)
initializeIndex(ix, paths, dir) ==
    IF paths = <<>> THEN ix
    ELSE LET filePath == Head(paths)
             loaded == IF ~Parses(dir[filePath]) THEN ix
                       ELSE processTranslationFile(ix, dir[filePath], filePath,
                                                   extractLanguageFromPath(filePath))
         IN initializeIndex(loaded, Tail(paths), dir)

----------------------------------------------------------------------------
(* TranslationMCPServer: auto-sync *)

debounceMs == 100           \* watchOptions.debounceMs
AutoSyncDelay == 500        \* the delay of scheduleAutoSync's timer
NoTimeout == -1             \* no timer pending
Unlinked == -2              \* fsEvents: the file was deleted, unlink not yet reported

PreValidating == "mcp-tools.ts"     \* the source with the conflict pre-validation
Direct == "mcp-server.ts"           \* the source without it

getLanguages(ix) == SortStrings(UNION {DOMAIN ix.heap[ix.flat[k]] : k \in DOMAIN ix.flat})

\* the timer after the handlers of the index events ev have run
scheduleAutoSync(ev, timeout) ==
    IF ~autoSync THEN timeout
    ELSE IF \E i \in 1..Len(ev) : ev[i] \in {"set", "delete"} THEN AutoSyncDelay ELSE timeout

\* allKeys.filter(keyPath => this.index.get(keyPath, language))
RECURSIVE LanguageKeys(_, _, _, _)
LanguageKeys(ix, allKeys, language, languageKeys) ==
    IF allKeys = <<>> THEN [ix |-> ix, keys |-> languageKeys]
    ELSE LET r == IxGet(ix, Head(allKeys), language)
         IN LanguageKeys(r, Tail(allKeys), language,
                         IF r.out.kind # "undefined"
                         THEN Append(languageKeys, Head(allKeys)) ELSE languageKeys)

\* the pre-validation loop: the number of conflicts found
RECURSIVE PreValidate(_, _, _, _, _)
PreValidate(ix, keys, language, currentData, conflicts) ==
    IF keys = <<>> THEN [ix |-> ix, conflicts |-> conflicts]
    ELSE LET r == IxGet(ix, Head(keys), language)
             hit == /\ r.out.kind = "entry"
                    /\ findConflictingPath(currentData, Split(Head(keys))).conflict
         IN PreValidate(r, Tail(keys), language, currentData,
                        IF hit THEN conflicts + 1 ELSE conflicts)

\* the edit loop: acc is [ix, text, changesMade]
RECURSIVE ApplyKeys(_, _, _)
ApplyKeys(acc, keys, language) ==
    IF keys = <<>> THEN acc
    ELSE LET r == IxGet(acc.ix, Head(keys), language)
             edit == modify(acc.text, Split(Head(keys)), r.out.v.value)
         IN IF r.out.kind = "entry" /\ ~edit.threw
            THEN ApplyKeys([ix |-> r, text |-> edit.text,
                            changesMade |-> acc.changesMade + 1],
                           Tail(keys), language)
            ELSE ApplyKeys([acc EXCEPT !.ix = r], Tail(keys), language)

\* syncLanguageToFile from the file it has read to the write it decides on
syncLanguageToFile(source, ix, language, allKeys, file) ==
    LET fileExisted == file.type # "absent"
        fileContent == IF fileExisted THEN file ELSE ObjectNode(EmptyMap)
        own == LanguageKeys(ix, allKeys, language, <<>>)
        checked == IF source = PreValidating
                   THEN PreValidate(own.ix, own.keys, language, fileContent, 0)
                   ELSE [ix |-> own.ix, conflicts |-> 0]
        applied == ApplyKeys([ix |-> checked.ix, text |-> fileContent, changesMade |-> 0],
                             own.keys, language)
    IN IF own.keys = <<>> /\ ~fileExisted
       THEN [ix |-> own.ix, out |-> "nothing", text |-> file]
       ELSE IF checked.conflicts > 0
       THEN [ix |-> checked.ix, out |-> "skipped", text |-> file]
       ELSE IF applied.changesMade > 0
       THEN [ix |-> applied.ix, out |-> "write", text |-> applied.text]
       ELSE [ix |-> applied.ix, out |-> "nothing", text |-> file]

----------------------------------------------------------------------------
(* The server's inputs and bookkeeping *)

En == <<"e", "n">>
Es == <<"e", "s">>

\* the (key path, language) pairs of the set calls, and of the delete calls
SetInputs == {<<<<"a">>, En>>, <<<<"b">>, En>>, <<<<"a", ".", "b">>, En>>, <<<<"a">>, Es>>}
DeleteInputs == {<<<<"a">>, En>>}

\* what en.json holds when the server starts, and what a hand edit makes of it
InitialFiles == {Absent, ObjectNode(<<"a">> :> StringNode("x"))}
HandContents ==
    {ObjectNode(<<"a">> :> StringNode("h")),
     ObjectNode(<<"a">> :> ObjectNode(<<"b">> :> StringNode("h")))}

Loaded == [by |-> "none", files |-> <<>>, calls |-> 0, edits |-> 0, quiet |-> TRUE,
           before |-> EmptyMap]
NoWatch == [path |-> NoPath, left |-> NoTimeout]
NoBurst == [calls |-> 0, langs |-> {}, clean |-> TRUE, fired |-> FALSE]
Quiet == [op |-> "none", key |-> <<>>, lang |-> NoLang, out |-> "none"]

Min(a, b) == IF a < b THEN a ELSE b
Elapse(left) == IF left > 0 THEN (IF left > debounceMs THEN left - debounceMs ELSE 0) ELSE left

\* one key path lies on the other's path in a document
Overlaps(k1, k2) ==
    LET p1 == Split(k1)
        p2 == Split(k2)
        n == Min(Len(p1), Len(p2))
    IN SubSeq(p1, 1, n) = SubSeq(p2, 1, n)

\* some proper prefix of the key path is a scalar of the document
StructuralConflict(file, keyPath) ==
    LET parts == Split(keyPath)
    IN \E n \in 1..(Len(parts) - 1) : NodeAt(file, SubSeq(parts, 1, n)).type = "string"

\* the burst after an operation that emitted the index events ev for language l
BurstAfter(ev, l) ==
    IF ~\E i \in 1..Len(ev) : ev[i] \in {"set", "delete"} THEN burst
    ELSE IF autoSyncTimeout > 0
    THEN [burst EXCEPT !.calls = Min(2, burst.calls + 1), !.langs = burst.langs \cup {l}]
    ELSE [calls |-> 1, langs |-> {l}, clean |-> TRUE, fired |-> FALSE]

\* the server when nothing is pending
SyncIdle(dir) ==
    /\ files = dir
    /\ fsEvents = [p \in Paths |-> NoTimeout]
    /\ watchTimer = NoWatch
    /\ processedFiles = [p \in Paths |-> NoTimeout]
    /\ watchTasks = {}
    /\ autoSyncTimeout = NoTimeout
    /\ syncPasses = <<>>
    /\ calls = 0
    /\ edits = 0
    /\ sinceCall = AutoSyncDelay
    /\ burst = NoBurst
    /\ edited = [p \in Paths |-> {}]
    /\ removed = [p \in Paths |-> {}]
    /\ isRefreshing = FALSE
    /\ stopped = FALSE
    /\ loader = Loaded

----------------------------------------------------------------------------
(* The index as a state machine *)

Current == Working(flatIndex, cache, sortedKeys, keysDirty)

\* the variables of the index after an operation that left the working state ix
BecomesIx(ix) ==
    /\ flatIndex' = Store(ix)
    /\ cache' = ix.cache
    /\ sortedKeys' = ix.sorted
    /\ keysDirty' = ix.dirty
    /\ events' = ix.ev

\* the same, of an index that no server listens to
Becomes(ix) == BecomesIx(ix) /\ UNCHANGED syncVars

Init ==
    /\ flatIndex = EmptyMap
    /\ cache = <<>>
    /\ sortedKeys = <<>>
    /\ keysDirty = FALSE
    /\ events = <<>>
    /\ ret = [op |-> "none", key |-> <<>>, lang |-> NoLang, out |-> "none"]
    /\ serverSource = PreValidating
    /\ autoSync = TRUE
    /\ SyncIdle([p \in Paths |-> Absent])

Set(keyPath, language, value) ==
    LET r == IxSet(Current, keyPath, language, value, NoPath)
    IN /\ Becomes(r)
       /\ ret' = [op |-> "set", key |-> keyPath, lang |-> language, out |-> r.out]

Delete(keyPath, language) ==
    LET r == IxDelete(Current, keyPath, language)
    IN /\ Becomes(r)
       /\ ret' = [op |-> "delete", key |-> keyPath, lang |-> language, out |-> r.out]

Get(keyPath, language) ==
    LET r == IxGet(Current, keyPath, language)
    IN /\ Becomes(r)
       /\ ret' = [op |-> "get", key |-> keyPath, lang |-> language, out |-> r.out]

GetKeys ==
    LET r == IxGetKeys(Current)
    IN /\ Becomes(r)
       /\ ret' = [op |-> "getKeys", key |-> <<>>, lang |-> NoLang, out |-> r.out]

Clear ==
    LET r == IxClear(Current)
    IN /\ Becomes(r)
       /\ ret' = [op |-> "clear", key |-> <<>>, lang |-> NoLang, out |-> r.out]

\* the operations a batch is drawn from
BatchOps ==
    {SetOp(k, <<"e", "n">>, "y") : k \in ValidKeys}
    \cup {SetOp(<<"a", ".", ".", "b">>, <<"e", "n">>, "x"),
          SetOp(<<"a">>, NoLang, NoValue)}
    \cup {DeleteOp(k, l) : k \in ValidKeys, l \in {<<"e", "n">>, NoLang}}

Batches == UNION {[1..n -> BatchOps] : n \in 0..MaxBatch}

BatchUpdate(operations) ==
    LET r == batchUpdate(Current, operations)
    IN /\ Becomes(r)
       /\ ret' = [op |-> "batchUpdate", key |-> <<>>, lang |-> NoLang, out |-> r.out]

\* the operations the batches of SpecCache are drawn from
CacheBatchOps ==
    {SetOp(<<"a">>, <<"e", "n">>, "y"),
     SetOp(<<"a", ".", ".", "b">>, <<"e", "n">>, "x"),
     DeleteOp(<<"a">>, <<"e", "n">>),
     DeleteOp(<<"a">>, NoLang)}

CacheBatches == UNION {[1..n -> CacheBatchOps] : n \in 0..MaxBatch}

\* Spec: the store, its sorted key list and batches
Next ==
    \/ \E k \in KeyInputs, l \in Languages, v \in Values : Set(k, l, v)
    \/ \E k \in ValidKeys, l \in Languages \cup {NoLang} : Delete(k, l)
    \/ GetKeys
    \/ Clear
    \/ \E operations \in Batches : BatchUpdate(operations)

Spec == Init /\ [][Next]_vars

\* SpecCache: the store read through the cache
NextCache ==
    \/ \E k \in KeyInputs, l \in Languages, v \in Values : Set(k, l, v)
    \/ \E k \in ValidKeys, l \in Languages \cup {NoLang} : Delete(k, l)
    \/ \E k \in ValidKeys, l \in Languages \cup {NoLang} : Get(k, l)
    \/ Clear
    \/ \E operations \in CacheBatches : BatchUpdate(operations)

SpecCache == Init /\ [][NextCache]_vars

----------------------------------------------------------------------------
(* SpecPrefix: prefix searches over an index filled by set calls *)

RECURSIVE StringsUpTo(_, _)
StringsUpTo(alphabet, n) ==
    IF n = 0 THEN {<<>>}
    ELSE LET shorter == StringsUpTo(alphabet, n - 1)
         IN shorter \cup {Append(s, c) : s \in shorter, c \in alphabet}

PrefixKeyUniverse == {k \in StringsUpTo({"a", "b", "."}, 3) : isValid(k)}
PrefixInputs ==
    StringsUpTo({"a", "b", "."}, MaxPrefixLen)
    \cup {<<"-">>, <<":">>, <<"a", "-">>, <<"a", ":">>, Sentinel}

\* the index after set(k, "en", "x") for every k of keys, in any order
InitPrefix ==
    \E keys \in {S \in SUBSET PrefixKeyUniverse : Cardinality(S) <= MaxPrefixKeys} :
        /\ flatIndex = [k \in keys |-> (<<"e", "n">> :> [value |-> "x", file |-> NoPath])]
        /\ cache = <<>>
        /\ sortedKeys = <<>>
        /\ keysDirty = (keys # {})
        /\ events = IF keys = {} THEN <<>> ELSE <<"set">>
        /\ ret = [op |-> IF keys = {} THEN "none" ELSE "set",
                  key |-> <<>>, lang |-> NoLang, out |-> "ok"]
        /\ serverSource = PreValidating
        /\ autoSync = TRUE
        /\ SyncIdle([p \in Paths |-> Absent])

SearchByPrefix(prefix) ==
    LET r == IxSearchByPrefix(Current, prefix)
    IN /\ Becomes(r)
       /\ ret' = [op |-> "searchByPrefix", key |-> prefix, lang |-> NoLang, out |-> r.out]

NextPrefix == \E prefix \in PrefixInputs : SearchByPrefix(prefix)

SpecPrefix == InitPrefix /\ [][NextPrefix]_vars

----------------------------------------------------------------------------
(* SpecContext: getContext over an index filled by set calls *)

\* segments.join('.')
RECURSIVE join(_)
join(segments) ==
    IF segments = <<>> THEN <<>>
    ELSE IF Len(segments) = 1 THEN segments[1]
    ELSE segments[1] \o <<".">> \o join(Tail(segments))

\* PathParser.getParent; null is NoPath
getParent(path) ==
    LET segments == Split(path)
    IN IF Len(segments) <= 1 THEN NoPath
       ELSE join(SubSeq(segments, 1, Len(segments) - 1))

\* PathParser.isChildOf
isChildOf(childPath, parentPath) ==
    IF childPath = parentPath THEN FALSE
    ELSE StartsWith(childPath, parentPath \o <<".">>)

\* the entry of a key filtered by options.languages (filtered is FALSE when
\* the option is left out)
filterEntry(entry, options) ==
    [lang \in {l \in DOMAIN entry : ~options.filtered \/ l \in options.languages}
        |-> entry[lang]]

\* the keys of sortedKeys under parentPath, other than keyPath, that have an
\* entry which is not empty after filtering, each with its filtered entry
contextOf(flat, keys, parentPath, keyPath, options) ==
    LET under == SelectSeq(keys, LAMBDA other :
                    /\ isChildOf(other, parentPath)
                    /\ other # keyPath
                    /\ other \in DOMAIN flat
                    /\ DOMAIN filterEntry(flat[other], options) # {})
    IN [i \in 1..Len(under) |->
            [keyPath |-> under[i], translations |-> filterEntry(flat[under[i]], options)]]

NoContext == [keyPath |-> NoPath, translations |-> EmptyMap]

\* TranslationContextEngine.getContext
getContext(flat, keys, keyPath, options) ==
    IF keyPath \notin DOMAIN flat
    THEN [found |-> FALSE, keyPath |-> keyPath, translations |-> EmptyMap,
          parent |-> NoContext, children |-> <<>>, siblings |-> <<>>]
    ELSE LET parentPath == getParent(keyPath)
         IN [found |-> TRUE,
             keyPath |-> keyPath,
             translations |-> filterEntry(flat[keyPath], options),
             parent |->
                IF parentPath # NoPath /\ options.depth > 0
                THEN IF parentPath \in DOMAIN flat
                     THEN [keyPath |-> parentPath,
                           translations |-> filterEntry(flat[parentPath], options)]
                     ELSE IF \E i \in 1..Len(keys) :
                                keys[i] # keyPath /\ isChildOf(keys[i], parentPath)
                     THEN [keyPath |-> parentPath, translations |-> EmptyMap]
                     ELSE NoContext
                ELSE NoContext,
             children |-> contextOf(flat, keys, keyPath, keyPath, options),
             siblings |-> IF parentPath # NoPath
                          THEN contextOf(flat, keys, parentPath, keyPath, options)
                          ELSE <<>>]

ContextKeys == {<<"a">>, <<"b">>, <<"a", ".", "b">>, <<"a", ".", "b", ".", "a">>}
ContextOptions ==
    {[depth |-> d, filtered |-> f.filtered, languages |-> f.languages] :
        d \in {0, 1},
        f \in {[filtered |-> FALSE, languages |-> {}],
               [filtered |-> TRUE, languages |-> {<<"e", "n">>}]}}

\* TranslationIndex.getContext
GetContext(keyPath, options) ==
    LET s == ensureSortedKeys(Current)
        r == [s EXCEPT !.out = getContext(Store(s), s.sorted, keyPath, options)]
    IN /\ Becomes(r)
       /\ ret' = [op |-> "getContext", key |-> keyPath, lang |-> NoLang, out |-> r.out,
                  options |-> options]

NextContext ==
    \/ \E k \in ContextKeys, l \in {<<"e", "n">>, <<"e", "s">>} : Set(k, l, "x")
    \/ \E k \in ContextKeys, options \in ContextOptions : GetContext(k, options)

SpecContext == Init /\ [][NextContext]_vars

----------------------------------------------------------------------------
(* SpecSync: the index, the language files, the file watcher and auto-sync  *)

\* the server started on a directory: the index holds what the files hold
InitSync ==
    \E source \in {PreValidating, Direct}, en \in InitialFiles :
        LET dir == [p \in Paths |-> IF p = FilePath(En) THEN en ELSE Absent]
            loaded == initializeIndex(Working(EmptyMap, <<>>, <<>>, FALSE),
                                      SortStrings(Paths), dir)
        IN /\ serverSource = source
           /\ autoSync = TRUE
           /\ SyncIdle(dir)
           /\ flatIndex = Store(loaded)
           /\ cache = loaded.cache
           /\ sortedKeys = loaded.sorted
           /\ keysDirty = loaded.dirty
           /\ events = <<>>
           /\ ret = Quiet

\* index.set by a caller of a server that has started, and the server's
\* handler of its event
SetCall(keyPath, language, value) ==
    /\ calls < MaxCalls
    /\ loader.by # "start"
    /\ LET r == IxSet(Current, keyPath, language, value, NoPath)
       IN /\ BecomesIx(r)
          /\ autoSyncTimeout' = scheduleAutoSync(r.ev, autoSyncTimeout)
          /\ burst' = BurstAfter(r.ev, language)
          /\ ret' = [op |-> "set", key |-> keyPath, lang |-> language, out |-> r.out]
    /\ calls' = calls + 1
    /\ sinceCall' = 0
    /\ edited' = [edited EXCEPT ![FilePath(language)] = {k \in @ : ~Overlaps(k, keyPath)}]
    /\ removed' = [removed EXCEPT ![FilePath(language)] = @ \ {keyPath}]
    /\ UNCHANGED <<isRefreshing, loader>>
    /\ UNCHANGED <<stopped, serverSource, autoSync, files, fsEvents, watchTimer, processedFiles, watchTasks,
                   syncPasses, edits>>

\* index.delete by a caller and the server's handler of its event
DeleteCall(keyPath, language) ==
    /\ calls < MaxCalls
    /\ loader.by # "start"
    /\ LET r == IxDelete(Current, keyPath, language)
       IN /\ BecomesIx(r)
          /\ autoSyncTimeout' = scheduleAutoSync(r.ev, autoSyncTimeout)
          /\ burst' = BurstAfter(r.ev, language)
          /\ sinceCall' = IF r.ev # <<>> THEN 0 ELSE sinceCall
          /\ ret' = [op |-> "delete", key |-> keyPath, lang |-> language, out |-> r.out]
    /\ calls' = calls + 1
    /\ edited' = [edited EXCEPT ![FilePath(language)] = {k \in @ : ~Overlaps(k, keyPath)}]
    /\ removed' = [removed EXCEPT ![FilePath(language)] = @ \ {keyPath}]
    /\ UNCHANGED <<isRefreshing, loader>>
    /\ UNCHANGED <<stopped, serverSource, autoSync, files, fsEvents, watchTimer, processedFiles, watchTasks,
                   syncPasses, edits>>

\* somebody edits a language file by hand
WriteByHand(filePath, content) ==
    /\ loader.by # "start"
    /\ content # files[filePath]
    /\ files' = [files EXCEPT ![filePath] = content]
    /\ fsEvents' = [fsEvents EXCEPT ![filePath] = debounceMs]
    /\ edits' = edits + 1
    /\ burst' = [burst EXCEPT !.clean = FALSE]
    /\ edited' = [edited EXCEPT ![filePath] =
            {k \in @ \cup {leaf.keyPath : leaf \in Leaves(content, <<>>)} :
                /\ NodeAt(content, Split(k)).type = "string"
                /\ k \in @ \/ NodeAt(content, Split(k)) # NodeAt(files[filePath], Split(k))}]
    /\ removed' = [removed EXCEPT ![filePath] =
            (@ \cup LeafKeys(files[filePath])) \ LeafKeys(content)]
    /\ UNCHANGED <<isRefreshing, loader>>
    /\ events' = <<>>
    /\ ret' = Quiet
    /\ UNCHANGED <<stopped, flatIndex, cache, sortedKeys, keysDirty, serverSource, autoSync, watchTimer,
                   processedFiles, watchTasks, autoSyncTimeout, syncPasses, calls,
                   sinceCall>>

HandEdit(filePath, content) == edits < MaxEdits /\ WriteByHand(filePath, content)

\* chokidar reports a file whose writing has settled: debouncedProcessChange
ChokidarChange(filePath) ==
    /\ fsEvents[filePath] = 0
    /\ fsEvents' = [fsEvents EXCEPT ![filePath] = NoTimeout]
    /\ watchTimer' = [path |-> filePath, left |-> debounceMs]
    /\ events' = <<>>
    /\ ret' = Quiet
    /\ UNCHANGED <<stopped, flatIndex, cache, sortedKeys, keysDirty, serverSource, autoSync, files,
                   processedFiles, watchTasks, autoSyncTimeout, syncPasses, calls, edits,
                   sinceCall, burst, edited, removed,
        isRefreshing, loader>>

\* the debounce timer fires: processFileChange up to the file it awaits.  A
\* removal timer of the path that is due at the same time was set earlier and
\* fires first.
ProcessFileChange ==
    /\ watchTimer.left = 0
    /\ processedFiles[watchTimer.path] # 0
    /\ watchTimer' = NoWatch
    /\ IF processedFiles[watchTimer.path] # NoTimeout
       THEN UNCHANGED <<processedFiles, watchTasks>>
       ELSE /\ processedFiles' = [processedFiles EXCEPT ![watchTimer.path] = debounceMs * 2]
            /\ watchTasks' =
                 IF ~Parses(files[watchTimer.path]) THEN watchTasks
                 ELSE watchTasks \cup {[path |-> watchTimer.path,
                                        data |-> files[watchTimer.path]]}
    /\ events' = <<>>
    /\ ret' = Quiet
    /\ UNCHANGED <<stopped, flatIndex, cache, sortedKeys, keysDirty, serverSource, autoSync, files, fsEvents,
                   autoSyncTimeout, syncPasses, calls, edits, sinceCall, burst, edited, removed,
        isRefreshing, loader>>

\* FileProcessed of a server whose handler of fileProcessed leaves the timer
FileProcessedKeepsTimer(task) ==
    /\ task \in watchTasks
    /\ watchTasks' = watchTasks \ {task}
    /\ LET language == extractLanguageFromPath(task.path)
           r == processTranslationFile(Current, task.data, task.path, language)
       IN /\ BecomesIx(r)
          /\ sinceCall' = IF r.ev # <<>> THEN 0 ELSE sinceCall
          /\ ret' = [op |-> "fileProcessed", key |-> <<>>, lang |-> language,
                     out |-> r.out, path |-> task.path, data |-> task.data]
    /\ autoSyncTimeout' = autoSyncTimeout
    /\ burst' = [burst EXCEPT !.clean = FALSE]
    /\ edited' = [edited EXCEPT ![task.path] =
            {k \in @ : NodeAt(task.data, Split(k)) # NodeAt(files[task.path], Split(k))}]
    /\ UNCHANGED <<removed, isRefreshing, loader>>
    /\ UNCHANGED <<stopped, serverSource, autoSync, files, fsEvents, watchTimer, processedFiles, syncPasses,
                   calls, edits>>

\* FileProcessed of a server that has no handler of fileProcessed: the timer
\* that the set events of the file's leaves scheduled stays
FileProcessedLeavesTimer(task) ==
    /\ task \in watchTasks
    /\ watchTasks' = watchTasks \ {task}
    /\ LET language == extractLanguageFromPath(task.path)
           r == processTranslationFile(Current, task.data, task.path, language)
       IN /\ BecomesIx(r)
          /\ autoSyncTimeout' = scheduleAutoSync(r.ev, autoSyncTimeout)
          /\ sinceCall' = IF r.ev # <<>> THEN 0 ELSE sinceCall
          /\ ret' = [op |-> "fileProcessed", key |-> <<>>, lang |-> language,
                     out |-> r.out, path |-> task.path, data |-> task.data]
    /\ burst' = [burst EXCEPT !.clean = FALSE]
    /\ edited' = [edited EXCEPT ![task.path] =
            {k \in @ : NodeAt(task.data, Split(k)) # NodeAt(files[task.path], Split(k))}]
    /\ UNCHANGED <<removed, isRefreshing, loader>>
    /\ UNCHANGED <<stopped, serverSource, autoSync, files, fsEvents, watchTimer, processedFiles, syncPasses,
                   calls, edits>>

\* processFileChange from the parsed file on: the index takes the file's
\* leaves, fileProcessed is emitted and the server cancels its timer
FileProcessed(task) ==
    /\ task \in watchTasks
    /\ watchTasks' = watchTasks \ {task}
    /\ LET language == extractLanguageFromPath(task.path)
           r == processTranslationFile(Current, task.data, task.path, language)
       IN /\ BecomesIx(r)
          /\ sinceCall' = IF r.ev # <<>> THEN 0 ELSE sinceCall
          /\ ret' = [op |-> "fileProcessed", key |-> <<>>, lang |-> language,
                     out |-> r.out, path |-> task.path, data |-> task.data]
    /\ autoSyncTimeout' = NoTimeout
    /\ burst' = [burst EXCEPT !.clean = FALSE]
    /\ edited' = [edited EXCEPT ![task.path] =
            {k \in @ : NodeAt(task.data, Split(k)) # NodeAt(files[task.path], Split(k))}]
    /\ UNCHANGED <<removed, isRefreshing, loader>>
    /\ UNCHANGED <<stopped, serverSource, autoSync, files, fsEvents, watchTimer, processedFiles, syncPasses,
                   calls, edits>>

\* the timer processFileChange set removes the path from processedFiles
ProcessedExpire(filePath) ==
    /\ processedFiles[filePath] = 0
    /\ processedFiles' = [processedFiles EXCEPT ![filePath] = NoTimeout]
    /\ events' = <<>>
    /\ ret' = Quiet
    /\ UNCHANGED <<stopped, flatIndex, cache, sortedKeys, keysDirty, serverSource, autoSync, files, fsEvents,
                   watchTimer, watchTasks, autoSyncTimeout, syncPasses, calls, edits,
                   sinceCall, burst, edited, removed,
        isRefreshing, loader>>

\* a pass that has dealt with the language at the head of its list
NextLanguage(pass) ==
    [pass EXCEPT !.languages = Tail(pass.languages),
                 !.pc = IF Len(pass.languages) > 1 THEN "read" ELSE "done"]

\* the auto-sync timer fires: performAutoSync up to its first file
PerformAutoSync ==
    /\ autoSyncTimeout = 0
    /\ autoSyncTimeout' = NoTimeout
    /\ LET listed == IxGetKeys(Current)
           languages == getLanguages(listed)
       IN /\ BecomesIx(listed)
          /\ syncPasses' = Append(syncPasses,
                [languages |-> languages, allKeys |-> listed.out,
                 pc |-> IF languages = <<>> THEN "done" ELSE "read",
                 text |-> Absent, synced |-> Range(languages),
                 calls |-> burst.calls, langs |-> burst.langs, clean |-> burst.clean,
                 written |-> {}, blocked |-> {}, visited |-> {}, failed |-> {}])
    /\ burst' = [burst EXCEPT !.fired = TRUE]
    /\ ret' = [op |-> "performAutoSync", key |-> <<>>, lang |-> NoLang, out |-> "started"]
    /\ UNCHANGED <<stopped, serverSource, autoSync, files, fsEvents, watchTimer, processedFiles, watchTasks,
                   calls, edits, sinceCall, edited, removed,
        isRefreshing, loader>>

\* a pass has read the file of its language: syncLanguageToFile up to the write
SyncLanguageToFile(i) ==
    /\ i \in 1..Len(syncPasses)
    /\ syncPasses[i].pc = "read"
    /\ LET pass == syncPasses[i]
           language == Head(pass.languages)
           file == files[FilePath(language)]
           r == syncLanguageToFile(serverSource, Current, language, pass.allKeys, file)
           seen == [pass EXCEPT !.visited = pass.visited \cup {language},
                                !.blocked =
                       IF \E k \in Range(pass.allKeys) :
                            /\ IxHas(Current, k, language)
                            /\ StructuralConflict(file, k)
                       THEN pass.blocked \cup {language} ELSE pass.blocked]
       IN /\ BecomesIx(r.ix)
          /\ syncPasses' = [syncPasses EXCEPT ![i] =
                IF r.out = "write"
                THEN [seen EXCEPT !.pc = "write", !.text = r.text]
                ELSE NextLanguage(seen)]
          /\ ret' = [op |-> "syncLanguageToFile", key |-> <<>>, lang |-> language,
                     out |-> r.out, blocked |-> language \in seen.blocked]
    /\ UNCHANGED <<stopped, serverSource, autoSync, files, fsEvents, watchTimer, processedFiles, watchTasks,
                   autoSyncTimeout, calls, edits, sinceCall, burst, edited, removed,
        isRefreshing, loader>>

\* fs.writeFile of a pass
WriteFile(i) ==
    /\ i \in 1..Len(syncPasses)
    /\ syncPasses[i].pc = "write"
    /\ LET pass == syncPasses[i]
           language == Head(pass.languages)
           filePath == FilePath(language)
       IN /\ files' = [files EXCEPT ![filePath] = pass.text]
          /\ fsEvents' = [fsEvents EXCEPT ![filePath] = debounceMs]
          /\ syncPasses' = [syncPasses EXCEPT ![i] =
                NextLanguage([pass EXCEPT !.written = pass.written \cup {language},
                                          !.text = Absent])]
          /\ edited' = [edited EXCEPT ![filePath] =
                {k \in @ : NodeAt(pass.text, Split(k)) = NodeAt(files[filePath], Split(k))}]
          /\ removed' = [removed EXCEPT ![filePath] = @ \ LeafKeys(pass.text)]
          /\ ret' = [op |-> "writeFile", key |-> <<>>, lang |-> language, out |-> "ok"]
    /\ events' = <<>>
    /\ UNCHANGED <<isRefreshing, loader>>
    /\ UNCHANGED <<stopped, flatIndex, cache, sortedKeys, keysDirty, serverSource, autoSync, watchTimer,
                   processedFiles, watchTasks, autoSyncTimeout, calls, edits, sinceCall,
                   burst>>

\* fs.writeFile of a pass fails: syncLanguageToFile throws.  performAutoSync of
\* mcp-tools.ts counts the error and goes on to the next language, the one of
\* mcp-server.ts throws the error again and leaves its loop.
WriteFileFails(i) ==
    /\ i \in 1..Len(syncPasses)
    /\ syncPasses[i].pc = "write"
    /\ LET pass == syncPasses[i]
           language == Head(pass.languages)
           thrown == [pass EXCEPT !.failed = pass.failed \cup {language}, !.text = Absent]
       IN /\ syncPasses' = [syncPasses EXCEPT ![i] =
                IF serverSource = PreValidating
                THEN NextLanguage(thrown)
                ELSE [thrown EXCEPT !.pc = "done"]]
          /\ ret' = [op |-> "writeFile", key |-> <<>>, lang |-> language,
                     out |-> "error"]
    /\ events' = <<>>
    /\ UNCHANGED <<stopped, flatIndex, cache, sortedKeys, keysDirty, serverSource, autoSync, files, fsEvents,
                   watchTimer, processedFiles, watchTasks, autoSyncTimeout, calls, edits,
                   sinceCall, burst, edited, removed,
        isRefreshing, loader>>

\* performAutoSync returns
AutoSyncCompleted(i) ==
    /\ i \in 1..Len(syncPasses)
    /\ syncPasses[i].pc = "done"
    /\ syncPasses' = SubSeq(syncPasses, 1, i - 1) \o SubSeq(syncPasses, i + 1, Len(syncPasses))
    /\ ret' = [op |-> "autoSyncCompleted", key |-> <<>>, lang |-> NoLang,
               out |-> "completed", pass |-> syncPasses[i]]
    /\ events' = <<>>
    /\ UNCHANGED <<stopped, flatIndex, cache, sortedKeys, keysDirty, serverSource, autoSync, files, fsEvents,
                   watchTimer, processedFiles, watchTasks, autoSyncTimeout, calls, edits,
                   sinceCall, burst, edited, removed,
        isRefreshing, loader>>

\* time passes by one debounce interval.  A timer that is due fires first,
\* and a file operation or a report of chokidar that is under way completes
\* before the interval ends.
Tick ==
    /\ autoSyncTimeout # 0
    /\ watchTimer.left # 0
    /\ \A p \in Paths : processedFiles[p] # 0 /\ fsEvents[p] \notin {0, Unlinked}
    /\ watchTasks = {}
    /\ syncPasses = <<>>
    /\ loader.by = "none"
    /\ \/ autoSyncTimeout > 0
       \/ watchTimer.left > 0
       \/ \E p \in Paths : processedFiles[p] > 0 \/ fsEvents[p] > 0
       \/ sinceCall < AutoSyncDelay
    /\ autoSyncTimeout' = Elapse(autoSyncTimeout)
    /\ watchTimer' = [watchTimer EXCEPT !.left = Elapse(@)]
    /\ processedFiles' = [p \in Paths |-> Elapse(processedFiles[p])]
    /\ fsEvents' = [p \in Paths |-> Elapse(fsEvents[p])]
    /\ sinceCall' = Min(AutoSyncDelay, sinceCall + debounceMs)
    /\ events' = <<>>
    /\ ret' = Quiet
    /\ UNCHANGED <<stopped, flatIndex, cache, sortedKeys, keysDirty, serverSource, autoSync, files,
                   watchTasks, syncPasses, calls, edits, burst, edited, removed,
        isRefreshing, loader>>

NextSync ==
    \/ \E input \in SetInputs : SetCall(input[1], input[2], "y")
    \/ \E input \in DeleteInputs : DeleteCall(input[1], input[2])
    \/ \E content \in HandContents : HandEdit(FilePath(En), content)
    \/ \E filePath \in Paths : ChokidarChange(filePath)
    \/ ProcessFileChange
    \/ \E task \in watchTasks : FileProcessed(task)
    \/ \E filePath \in Paths : ProcessedExpire(filePath)
    \/ PerformAutoSync
    \/ \E i \in 1..Len(syncPasses) : SyncLanguageToFile(i)
    \/ \E i \in 1..Len(syncPasses) : WriteFile(i)
    \/ \E i \in 1..Len(syncPasses) : WriteFileFails(i)
    \/ \E i \in 1..Len(syncPasses) : AutoSyncCompleted(i)
    \/ Tick

SpecSync == InitSync /\ [][NextSync]_vars

\* time passes by one debounce interval while a sync pass awaits a file
\* operation that takes longer than the interval
SlowTick ==
    /\ syncPasses # <<>>
    /\ autoSyncTimeout > 0
    /\ watchTimer.left # 0
    /\ \A p \in Paths : processedFiles[p] # 0 /\ fsEvents[p] \notin {0, Unlinked}
    /\ watchTasks = {}
    /\ loader.by = "none"
    /\ autoSyncTimeout' = Elapse(autoSyncTimeout)
    /\ watchTimer' = [watchTimer EXCEPT !.left = Elapse(@)]
    /\ processedFiles' = [p \in Paths |-> Elapse(processedFiles[p])]
    /\ fsEvents' = [p \in Paths |-> Elapse(fsEvents[p])]
    /\ sinceCall' = Min(AutoSyncDelay, sinceCall + debounceMs)
    /\ events' = <<>>
    /\ ret' = Quiet
    /\ UNCHANGED <<stopped, flatIndex, cache, sortedKeys, keysDirty, serverSource, autoSync, files,
                   watchTasks, syncPasses, calls, edits, burst, edited, removed,
                   isRefreshing, loader>>

\* SpecSlowSync: auto-sync on a file system whose operations may take longer
\* than the delay of the auto-sync timer
NextSlowSync ==
    \/ \E l \in {En, Es} : SetCall(<<"a">>, l, "y")
    \/ \E filePath \in Paths : ChokidarChange(filePath)
    \/ ProcessFileChange
    \/ \E task \in watchTasks : FileProcessed(task)
    \/ \E filePath \in Paths : ProcessedExpire(filePath)
    \/ PerformAutoSync
    \/ \E i \in 1..Len(syncPasses) : SyncLanguageToFile(i)
    \/ \E i \in 1..Len(syncPasses) : WriteFile(i)
    \/ \E i \in 1..Len(syncPasses) : AutoSyncCompleted(i)
    \/ Tick
    \/ SlowTick

SpecSlowSync == InitSync /\ [][NextSlowSync]_vars

----------------------------------------------------------------------------
(* SpecWatch: the file watcher and refreshFromFiles of a server whose       *)
(* config.autoSync is off.  chokidar's add events of the initial scan find  *)
(* their files in processedFiles and are left out.                          *)

\* handleFileDelete deleting the keys of the file for every language
handleFileDeleteAllLanguages(ix, filePath) ==
    LET language == extractLanguageFromPath(filePath)
        listed == IxGetKeys(ix)
        found == KeysOfFile(listed, listed.out, filePath, language, <<>>)
    IN DeleteKeys(found.ix, found.keys, NoLang)

\* FileWatcherHandlers.handleFileDelete
handleFileDelete(ix, filePath) ==
    LET language == extractLanguageFromPath(filePath)
        listed == IxGetKeys(ix)
        found == KeysOfFile(listed, listed.out, filePath, language, <<>>)
    IN DeleteKeys(found.ix, found.keys, language)

\* TranslationIndex.validateStructure without autoFix: the keys of the base
\* language that each other language of the index lacks, and the keys it has
\* beyond them; all values are strings, so no type differs
validateStructure(ix, baseLanguage) ==
    LET listed == IxGetKeys(ix)
        store == Store(listed)
        KeysOf(language) == {k \in Range(listed.out) : language \in DOMAIN store[k]}
        others == Range(getLanguages(listed)) \ {baseLanguage}
        missing == [l \in others |-> SortStrings(KeysOf(baseLanguage) \ KeysOf(l))]
        extra == [l \in others |-> SortStrings(KeysOf(l) \ KeysOf(baseLanguage))]
    IN [listed EXCEPT !.out =
            [valid |-> \A l \in others : missing[l] = <<>> /\ extra[l] = <<>>,
             missingKeys |-> [l \in {x \in others : missing[x] # <<>>} |-> missing[l]],
             extraKeys |-> [l \in {x \in others : extra[x] # <<>>} |-> extra[l]]]]

\* a tool validates the structure against the base language of the config
ValidateStructure ==
    /\ calls < MaxCalls
    /\ loader.by # "start"
    /\ calls' = calls + 1
    /\ LET r == validateStructure(Current, En)
       IN /\ BecomesIx(r)
          /\ ret' = [op |-> "validateStructure", key |-> <<>>, lang |-> En, out |-> r.out]
    /\ UNCHANGED <<stopped, serverSource, autoSync, files, fsEvents, watchTimer, processedFiles,
                   watchTasks, autoSyncTimeout, syncPasses, edits, sinceCall, burst,
                   edited, removed, isRefreshing, loader>>

\* what the translation directory holds when the server starts, and what a
\* change from outside makes of a file
WatchDirs ==
    {[p \in Paths |-> IF p = FilePath(En) THEN en ELSE es] :
        en \in {ObjectNode(<<"a">> :> StringNode("x")), Invalid},
        es \in {Absent, ObjectNode(EmptyMap), ObjectNode(<<"a">> :> StringNode("x"))}}
WatchContents ==
    {ObjectNode(<<"a">> :> StringNode("x") @@ <<"b">> :> StringNode("h")),
     ObjectNode(<<"b">> :> StringNode("h"))}

\* fs.readdir(translationDir) filtered for *.json
jsonFiles(dir) == SortStrings({p \in Paths : dir[p].type # "absent"})

\* nothing of the watcher is pending
WatcherQuiet ==
    /\ \A p \in Paths : fsEvents[p] = NoTimeout
    /\ watchTimer = NoWatch
    /\ watchTasks = {}
    /\ loader = Loaded

InitWatch ==
    \E dir \in WatchDirs :
        /\ flatIndex = EmptyMap
        /\ cache = <<>>
        /\ sortedKeys = <<>>
        /\ keysDirty = FALSE
        /\ events = <<>>
        /\ ret = Quiet
        /\ serverSource = PreValidating
        /\ autoSync = FALSE
        /\ files = dir
        /\ fsEvents = [p \in Paths |-> NoTimeout]
        /\ watchTimer = NoWatch
        /\ processedFiles = [p \in Paths |-> NoTimeout]
        /\ watchTasks = {}
        /\ autoSyncTimeout = NoTimeout
        /\ syncPasses = <<>>
        /\ calls = 0
        /\ edits = 0
        /\ sinceCall = AutoSyncDelay
        /\ burst = NoBurst
        /\ edited = [p \in Paths |-> {}]
        /\ removed = [p \in Paths |-> {}]
        /\ isRefreshing = FALSE
        /\ stopped = FALSE
        /\ loader = [Loaded EXCEPT !.by = "start", !.files = jsonFiles(dir)]

\* a scan that an error of one file ends
catchLoadErrorAborting(jsonFileList, failed) ==
    IF failed THEN <<>> ELSE Tail(jsonFileList)

\* initializeIndex: the catch inside the for loop logs the error of a file and
\* the loop goes on with the files after it
catchLoadError(jsonFileList, failed) == Tail(jsonFileList)

\* initializeIndex: processFile of the next file, and the server's handler of
\* fileProcessed.  An error of the file is caught and logged.
LoadFile ==
    /\ loader.files # <<>>
    /\ LET filePath == Head(loader.files)
           language == extractLanguageFromPath(filePath)
           skip == processedFiles[filePath] # NoTimeout
           r == processTranslationFile(Current, files[filePath], filePath, language)
       IN /\ loader' = [loader EXCEPT
                          !.files = catchLoadError(@, ~skip /\ ~Parses(files[filePath]))]
          /\ IF skip
             THEN /\ UNCHANGED <<flatIndex, cache, sortedKeys, keysDirty, processedFiles,
                                 autoSyncTimeout, sinceCall, edited>>
                  /\ events' = <<>>
                  /\ ret' = [op |-> "processFile", key |-> <<>>, lang |-> language,
                             out |-> "skipped", path |-> filePath]
             ELSE /\ processedFiles' = [processedFiles EXCEPT ![filePath] = debounceMs * 2]
                  /\ IF Parses(files[filePath])
                     THEN /\ BecomesIx(r)
                          /\ autoSyncTimeout' =
                                IF r.out = "ok" THEN NoTimeout
                                ELSE scheduleAutoSync(r.ev, autoSyncTimeout)
                          /\ sinceCall' = IF r.ev # <<>> THEN 0 ELSE sinceCall
                          /\ edited' = [edited EXCEPT ![filePath] = {}]
                          /\ ret' = [op |-> "processFile", key |-> <<>>, lang |-> language,
                                     out |-> r.out, path |-> filePath,
                                     data |-> files[filePath]]
                     ELSE /\ UNCHANGED <<flatIndex, cache, sortedKeys, keysDirty,
                                         autoSyncTimeout, sinceCall, edited>>
                          /\ events' = <<>>
                          /\ ret' = [op |-> "processFile", key |-> <<>>,
                                     lang |-> language, out |-> "error",
                                     path |-> filePath]
    /\ UNCHANGED <<stopped, serverSource, autoSync, files, fsEvents, watchTimer, watchTasks,
                   syncPasses, calls, edits, burst, removed, isRefreshing>>

\* initializeIndex returns: TranslationFileWatcher.start goes on to watch, or
\* refreshFromFiles resets its flag
LoadDone ==
    /\ loader.by # "none"
    /\ loader.files = <<>>
    /\ loader' = Loaded
    /\ isRefreshing' = FALSE
    /\ events' = <<>>
    /\ ret' = [op |-> IF loader.by = "start" THEN "start" ELSE "refreshFromFiles",
               key |-> <<>>, lang |-> NoLang, out |-> "ok", calls |-> loader.calls,
               edits |-> loader.edits, quiet |-> loader.quiet]
    /\ UNCHANGED <<stopped, flatIndex, cache, sortedKeys, keysDirty, serverSource, autoSync, files,
                   fsEvents, watchTimer, processedFiles, watchTasks, autoSyncTimeout,
                   syncPasses, calls, edits, sinceCall, burst, edited, removed>>

\* refreshFromFiles without its finally block
RefreshFromFilesNoFinally(readdirFails) ==
    /\ calls < MaxCalls
    /\ loader.by # "start"
    /\ calls' = calls + 1
    /\ IF isRefreshing
       THEN /\ UNCHANGED <<flatIndex, cache, sortedKeys, keysDirty, isRefreshing, loader>>
            /\ events' = <<>>
            /\ ret' = [op |-> "refreshFromFiles", key |-> <<>>, lang |-> NoLang,
                       out |-> "skipped"]
       ELSE /\ BecomesIx(IxClear(Current))
            /\ isRefreshing' = TRUE
            /\ loader' = IF readdirFails THEN Loaded
                         ELSE [by |-> "refresh", files |-> jsonFiles(files),
                               calls |-> calls + 1, edits |-> edits,
                               quiet |-> watchTasks = {}, before |-> flatIndex]
            /\ ret' = [op |-> "refreshFromFiles", key |-> <<>>, lang |-> NoLang,
                       out |-> IF readdirFails THEN "error" ELSE "started"]
    /\ UNCHANGED <<stopped, serverSource, autoSync, files, fsEvents, watchTimer, processedFiles,
                   watchTasks, autoSyncTimeout, syncPasses, edits, sinceCall, burst,
                   edited, removed>>

\* a tool calls refreshFromFiles: nothing while a refresh is in progress, else
\* the index is cleared and initializeIndex starts on the files readdir lists;
\* readdir may fail, which ends the refresh
RefreshFromFiles(readdirFails) ==
    /\ calls < MaxCalls
    /\ loader.by # "start"
    /\ calls' = calls + 1
    /\ IF isRefreshing
       THEN /\ UNCHANGED <<flatIndex, cache, sortedKeys, keysDirty, isRefreshing, loader>>
            /\ events' = <<>>
            /\ ret' = [op |-> "refreshFromFiles", key |-> <<>>, lang |-> NoLang,
                       out |-> "skipped"]
       ELSE /\ BecomesIx(IxClear(Current))
            /\ isRefreshing' = ~readdirFails
            /\ loader' = IF readdirFails THEN Loaded
                         ELSE [by |-> "refresh", files |-> jsonFiles(files),
                               calls |-> calls + 1, edits |-> edits,
                               quiet |-> watchTasks = {}, before |-> flatIndex]
            /\ ret' = [op |-> "refreshFromFiles", key |-> <<>>, lang |-> NoLang,
                       out |-> IF readdirFails THEN "error" ELSE "started"]
    /\ UNCHANGED <<stopped, serverSource, autoSync, files, fsEvents, watchTimer, processedFiles,
                   watchTasks, autoSyncTimeout, syncPasses, edits, sinceCall, burst,
                   edited, removed>>

\* a language file is changed from outside
ExternalChange(filePath, content) ==
    edits < MaxChanges /\ WriteByHand(filePath, content)

\* a language file is deleted from outside
ExternalDelete(filePath) ==
    /\ edits < MaxChanges
    /\ loader.by # "start"
    /\ files[filePath].type # "absent"
    /\ files' = [files EXCEPT ![filePath] = Absent]
    /\ fsEvents' = [fsEvents EXCEPT ![filePath] = Unlinked]
    /\ edits' = edits + 1
    /\ edited' = [edited EXCEPT ![filePath] = {}]
    /\ removed' = [removed EXCEPT ![filePath] = @ \cup LeafKeys(files[filePath])]
    /\ events' = <<>>
    /\ ret' = Quiet
    /\ UNCHANGED <<stopped, flatIndex, cache, sortedKeys, keysDirty, serverSource, autoSync,
                   watchTimer, processedFiles, watchTasks, autoSyncTimeout, syncPasses,
                   calls, sinceCall, burst, isRefreshing, loader>>

\* chokidar reports the deletion: handleFileDelete at once, and the server's
\* handler of fileProcessed
ChokidarUnlink(filePath) ==
    /\ fsEvents[filePath] = Unlinked
    /\ fsEvents' = [fsEvents EXCEPT ![filePath] = NoTimeout]
    /\ LET r == handleFileDelete(Current, filePath)
       IN /\ BecomesIx(r)
          /\ sinceCall' = IF r.ev # <<>> THEN 0 ELSE sinceCall
          /\ ret' = [op |-> "fileProcessed", key |-> <<>>,
                     lang |-> extractLanguageFromPath(filePath), out |-> "unlink",
                     path |-> filePath]
    /\ autoSyncTimeout' = NoTimeout
    /\ UNCHANGED <<stopped, serverSource, autoSync, files, watchTimer, processedFiles, watchTasks,
                   syncPasses, calls, edits, burst, edited, removed, isRefreshing, loader>>

NextWatch ==
    \/ LoadFile
    \/ LoadDone
    \/ \E readdirFails \in BOOLEAN : RefreshFromFiles(readdirFails)
    \/ SetCall(<<"a">>, En, "y")
    \/ DeleteCall(<<"a">>, En)
    \/ ValidateStructure
    \/ \E filePath \in Paths, content \in WatchContents : ExternalChange(filePath, content)
    \/ \E filePath \in Paths : ExternalDelete(filePath)
    \/ \E filePath \in Paths : ChokidarChange(filePath)
    \/ \E filePath \in Paths : ChokidarUnlink(filePath)
    \/ ProcessFileChange
    \/ \E task \in watchTasks : FileProcessed(task)
    \/ \E filePath \in Paths : ProcessedExpire(filePath)
    \/ Tick

SpecWatch == InitWatch /\ [][NextWatch]_vars

----------------------------------------------------------------------------
(* What a caller observes *)

has(keyPath, language) == IxHas(Current, keyPath, language)
getKeys == IxGetKeys(Current).out
LanguagesOf(keyPath) ==
    IF keyPath \in DOMAIN flatIndex THEN DOMAIN flatIndex[keyPath] ELSE {}

----------------------------------------------------------------------------
(* Claims *)

\* C1: a batchUpdate call that reports failure leaves the key set and the
\* value of every (key, language) pair as they were before the call.
C1_BatchAtomicity ==
    [][(ret'.op = "batchUpdate" /\ ret'.out = FALSE) => flatIndex' = flatIndex]_vars

\* C2: get(k, l) on a pair the store holds returns the entry whose value is
\* the one the last set(k, l, v) wrote, whatever was cached before.
C2_RoundTripUnderCaching ==
    (ret.op = "get" /\ ret.lang # NoLang /\ has(ret.key, ret.lang))
        => /\ ret.out.kind = "entry"
           /\ ret.out.v.value = flatIndex[ret.key][ret.lang].value

\* C3: no key path of the index maps to an entry with zero languages.
C3_NoEmptyEntry ==
    \A k \in DOMAIN flatIndex : DOMAIN flatIndex[k] # {}

\* C4: after a delete(k, l) that removed the last remaining language of k,
\* has(k) is false and k is absent from getKeys().
C4_Tombstone ==
    (ret.op = "delete" /\ ret.lang # NoLang /\ ret.out = TRUE
        /\ LanguagesOf(ret.key) = {})
        => /\ ~has(ret.key, NoLang)
           /\ ret.key \notin Range(getKeys)

C4_Witness ==
    /\ ret.op = "delete" /\ ret.lang # NoLang /\ ret.out = TRUE
    /\ ret.key \notin DOMAIN flatIndex
    /\ DOMAIN flatIndex # {}

\* C5: a set call with an invalid key path throws IndexError and changes
\* neither the store, the sorted key list, the dirty flag nor the cache, and
\* emits no event; every key of the index is a valid key path.
C5_InvalidSetRejected ==
    /\ [](\A k \in DOMAIN flatIndex : isValid(k))
    /\ [][(ret'.op = "set" /\ ~isValid(ret'.key))
            => /\ ret'.out = "IndexError"
               /\ UNCHANGED <<flatIndex, sortedKeys, keysDirty, cache>>
               /\ events' = <<>>]_vars

C5_Witness ==
    /\ ret.op = "set" /\ ret.out = "IndexError"
    /\ cache # <<>>
    /\ DOMAIN flatIndex # {}

\* C6: whenever the dirty flag is false the sorted key list is the ascending
\* sorted key set of the store, and getKeys() returns that sorted key set.
C6_SortedKeysExact ==
    /\ ~keysDirty => sortedKeys = SortStrings(DOMAIN flatIndex)
    /\ ret.op = "getKeys" => ret.out = SortStrings(DOMAIN flatIndex)

C6_Witness ==
    /\ ret.op = "getKeys"
    /\ ~keysDirty
    /\ Len(sortedKeys) = 2

\* C7: searchByPrefix(p) returns exactly the keys of the index that start
\* with p, in ascending order.
C7_PrefixCorrect ==
    ret.op = "searchByPrefix"
        => ret.out = SortStrings({k \in DOMAIN flatIndex : StartsWith(k, ret.key)})

C7_Witness ==
    /\ ret.op = "searchByPrefix"
    /\ ret.key # <<>>
    /\ Len(ret.out) = 2
    /\ Cardinality(DOMAIN flatIndex) = 3
    /\ ret.out[1] # sortedKeys[1]

\* the key paths of a pass that hold a language when the pass reads its file
PassKeys(pass, language) == {k \in Range(pass.allKeys) : has(k, language)}

\* a pass is about to sync a language of which some key has a structural
\* conflict with the language's file
ConflictAhead(language) ==
    \E i \in 1..Len(syncPasses) :
        /\ syncPasses[i].pc = "read"
        /\ Head(syncPasses[i].languages) = language
        /\ \E k \in PassKeys(syncPasses[i], language) :
              StructuralConflict(files[FilePath(language)], k)

\* C8: an auto-sync write never changes or removes a leaf that a hand edit
\* wrote to the file when memory holds no value set after that edit for it.
C8_HandEditWins ==
    [][(ret'.op = "writeFile" /\ ret'.out = "ok")
        => \A k \in edited[FilePath(ret'.lang)] :
              NodeAt(files'[FilePath(ret'.lang)], Split(k))
                  = NodeAt(files[FilePath(ret'.lang)], Split(k))]_vars

\* C9: set/delete events that follow each other within the window and that no
\* hand edit or watcher event interrupts start exactly one pass, when the
\* window after the last of them has elapsed, and that pass writes the file
\* of every language of these events that it syncs and that has no
\* structural conflict and no failing write exactly once.
C9_OnePassOneWrite ==
    /\ []((burst.calls >= 1 /\ burst.clean /\ sinceCall = AutoSyncDelay
              /\ autoSyncTimeout # 0) => burst.fired)
    /\ []((ret.op = "autoSyncCompleted" /\ ret.pass.calls >= 2 /\ ret.pass.clean)
            => \A l \in (ret.pass.langs \cap ret.pass.visited)
                            \ (ret.pass.blocked \cup ret.pass.failed) :
                  l \in ret.pass.written)
    /\ [][Len(syncPasses') > Len(syncPasses)
            => sinceCall = AutoSyncDelay /\ ~burst.fired]_vars

\* C10: a pass that finds a structural conflict between a key of a language
\* and the language's file decides on no write for that language and leaves
\* the file as it is.
C10_ConflictSkipsLanguage ==
    /\ [](\A i \in 1..Len(syncPasses) :
             syncPasses[i].blocked \cap syncPasses[i].written = {})
    /\ [][(ret'.op = "syncLanguageToFile" /\ ConflictAhead(ret'.lang))
            => ret'.out # "write" /\ files' = files]_vars

\* C11: a pass calls syncLanguageToFile for every language of the index,
\* whatever conflict, failed edit or failed write it met at an earlier one.
C11_FailuresIsolated ==
    ret.op = "autoSyncCompleted" => ret.pass.visited = ret.pass.synced

\* C12: when the watcher has processed an add or change of the file of a
\* language, every leaf of the file as it was read is in the index under that
\* language with the file's value, and no key that was taken out of the file
\* from outside, and not set in memory since, has an entry of that language.
C12_FileIsGroundTruth ==
    (ret.op = "fileProcessed" /\ ret.out = "ok")
        => /\ \A leaf \in Leaves(ret.data, <<>>) :
                /\ has(leaf.keyPath, ret.lang)
                /\ flatIndex[leaf.keyPath][ret.lang].value = leaf.value
           /\ \A k \in removed[ret.path] \ LeafKeys(ret.data) : ~has(k, ret.lang)

\* C13: once nothing of the watcher is pending any more, every leaf that a
\* change from outside wrote to a language file, and that memory has not set
\* since, is in the index under the file's language with the file's value.
C13_ChangeReflected ==
    WatcherQuiet
        => \A p \in Paths : \A k \in edited[p] :
              /\ has(k, extractLanguageFromPath(p))
              /\ flatIndex[k][extractLanguageFromPath(p)].value
                    = NodeAt(files[p], Split(k)).value

\* C14: a debounced call that is pending for a file stays pending, restarted
\* by further events of the same file, until its window has elapsed and
\* processFileChange runs for that file; an event of another file does not
\* take its place.
C14_CoalescedPerPath ==
    [][watchTimer.path # NoPath
        => \/ watchTimer'.path = watchTimer.path
           \/ watchTimer.left = 0 /\ watchTimer' = NoWatch]_vars

\* C15: a refreshFromFiles call made while a refresh is in progress changes
\* neither the index nor the refresh that runs; the flag is set exactly while
\* a refresh runs, so it is reset when a refresh ends or fails, and a call is
\* skipped only while a refresh runs.
C15_RefreshGuard ==
    /\ [](isRefreshing <=> loader.by = "refresh")
    /\ []((ret.op = "refreshFromFiles" /\ ret.out \in {"ok", "error"}) => ~isRefreshing)
    /\ [][(ret'.op = "refreshFromFiles" /\ ret'.out = "skipped")
            => /\ isRefreshing /\ loader.by = "refresh"
               /\ UNCHANGED <<flatIndex, cache, sortedKeys, keysDirty, isRefreshing,
                              loader, processedFiles>>]_vars

C15_Witness ==
    /\ ret.op = "refreshFromFiles" /\ ret.out = "skipped"
    /\ DOMAIN flatIndex # {}
    /\ loader.files # <<>>

\* C16: when a refresh that was not skipped completes, and no call, no change
\* from outside and no file read earlier by the watcher came in its way, the
\* index holds exactly the leaves of the files of the translation directory
\* that parse, each under the language of its file.
C16_RefreshSyncsMemory ==
    (ret.op = "refreshFromFiles" /\ ret.out = "ok" /\ ret.quiet
        /\ ret.calls = calls /\ ret.edits = edits)
        => UNION {{<<k, l, flatIndex[k][l].value>> : l \in DOMAIN flatIndex[k]} :
                    k \in DOMAIN flatIndex}
             = UNION {{<<leaf.keyPath, extractLanguageFromPath(p), leaf.value>> :
                         leaf \in Leaves(files[p], <<>>)} : p \in Paths}

\* C17: validateStructure reports for every language other than the base
\* language, those included whose file is there, parses and has been read but
\* holds no key, the keys of the base language that the language lacks.
C17_MissingKeysReported ==
    (ret.op = "validateStructure" /\ WatcherQuiet)
        => \A p \in Paths :
              LET l == extractLanguageFromPath(p)
                  lacking == {k \in DOMAIN flatIndex :
                                En \in DOMAIN flatIndex[k] /\ l \notin DOMAIN flatIndex[k]}
              IN (l # En /\ Parses(files[p]) /\ edited[p] = {} /\ lacking # {})
                    => /\ l \in DOMAIN ret.out.missingKeys
                       /\ ret.out.missingKeys[l] = SortStrings(lacking)

\* C18: when chokidar reports that a language file was deleted, the same
\* step, with no debounced call in between, removes the entry of the file's
\* language from every key whose entry is attributed to the file, leaves
\* every other entry of the index as it was, and emits fileProcessed for the
\* unlink.
C18_UnlinkClearsFile ==
    [][(ret'.op = "fileProcessed" /\ ret'.out = "unlink")
        => /\ fsEvents[ret'.path] = Unlinked
           /\ watchTimer' = watchTimer /\ watchTasks' = watchTasks
           /\ \A k \in DOMAIN flatIndex : \A l \in DOMAIN flatIndex[k] :
                IF l = ret'.lang /\ flatIndex[k][l].file = ret'.path
                THEN k \in DOMAIN flatIndex' => l \notin DOMAIN flatIndex'[k]
                ELSE /\ k \in DOMAIN flatIndex'
                     /\ l \in DOMAIN flatIndex'[k]
                     /\ flatIndex'[k][l] = flatIndex[k][l]
           /\ DOMAIN flatIndex' \subseteq DOMAIN flatIndex]_vars

C18_Witness ==
    /\ ret.op = "fileProcessed" /\ ret.out = "unlink" /\ ret.lang = En
    /\ \E i \in 1..Len(events) : events[i] = "delete"
    /\ <<"a">> \in DOMAIN flatIndex /\ DOMAIN flatIndex[<<"a">>] = {Es}

\* C19: a file of the initial scan that cannot be parsed is skipped and
\* reported as an error: the scan goes on with the files after it and changes
\* nothing for the bad file, the scan can always take its next step until
\* start-up completes, and when it has completed every leaf of every file
\* that parses is in the index with the file's value.
C19_BadFileSkipped ==
    /\ [][(ret'.op = "processFile" /\ ret'.out = "error")
            => /\ loader.files # <<>> /\ ~Parses(files[Head(loader.files)])
               /\ loader' = [loader EXCEPT !.files = Tail(@)]
               /\ flatIndex' = flatIndex]_vars
    /\ [](loader.by = "start" => ENABLED (LoadFile \/ LoadDone))
    /\ [](ret.op = "start"
            => \A p \in Paths : Parses(files[p])
                  => \A leaf \in Leaves(files[p], <<>>) :
                        /\ has(leaf.keyPath, extractLanguageFromPath(p))
                        /\ flatIndex[leaf.keyPath][extractLanguageFromPath(p)].value
                              = leaf.value)

C19_Witness ==
    /\ ret.op = "start" /\ ret.out = "ok"
    /\ files[FilePath(En)] = Invalid
    /\ has(<<"a">>, Es) /\ flatIndex[<<"a">>][Es].value = "x"

\* C20: the children getContext(k) returns are exactly the keys one segment
\* deeper than k under k that have a translation left after the language
\* filter; no deeper descendant is among them.
C20_ChildrenAreDirect ==
    (ret.op = "getContext" /\ ret.out.found)
        => {ret.out.children[i].keyPath : i \in 1..Len(ret.out.children)}
             = {other \in DOMAIN flatIndex :
                  /\ StartsWith(other, ret.key \o <<".">>)
                  /\ Len(Split(other)) = Len(Split(ret.key)) + 1
                  /\ \E l \in DOMAIN flatIndex[other] :
                        ~ret.options.filtered \/ l \in ret.options.languages}

\* TranslationMCPServer.stop: the auto-sync timer is cleared, the watcher is
\* closed and forgets the files it had processed; the watcher's debounced
\* call, its running tasks and the sync passes in flight are left alone
Stop ==
    /\ ~stopped
    /\ stopped' = TRUE
    /\ autoSyncTimeout' = NoTimeout
    /\ fsEvents' = [p \in Paths |-> NoTimeout]
    /\ processedFiles' = [p \in Paths |-> NoTimeout]
    /\ events' = <<>>
    /\ ret' = [Quiet EXCEPT !.op = "stop"]
    /\ UNCHANGED <<flatIndex, cache, sortedKeys, keysDirty, serverSource, autoSync, files,
                   watchTimer, watchTasks, syncPasses, sinceCall, calls, edits, burst,
                   edited, removed, isRefreshing, loader>>

NextStop ==
    \/ \E l \in {En, Es} : ~stopped /\ SetCall(<<"a">>, l, "y")
    \/ \E content \in HandContents : ~stopped /\ HandEdit(FilePath(En), content)
    \/ \E filePath \in Paths : ~stopped /\ ChokidarChange(filePath)
    \/ ProcessFileChange
    \/ \E task \in watchTasks : FileProcessed(task)
    \/ \E filePath \in Paths : ProcessedExpire(filePath)
    \/ PerformAutoSync
    \/ \E i \in 1..Len(syncPasses) : SyncLanguageToFile(i)
    \/ \E i \in 1..Len(syncPasses) : WriteFile(i)
    \/ \E i \in 1..Len(syncPasses) : AutoSyncCompleted(i)
    \/ Tick
    \/ Stop

SpecStop == InitSync /\ [][NextStop]_vars

\* what the event loop does by itself: timers fire, file operations finish,
\* chokidar reports, time passes
EventLoop ==
    \/ \E filePath \in Paths : ChokidarChange(filePath)
    \/ ProcessFileChange
    \/ \E task \in watchTasks : FileProcessed(task)
    \/ \E filePath \in Paths : ProcessedExpire(filePath)
    \/ PerformAutoSync
    \/ \E i \in 1..Len(syncPasses) : SyncLanguageToFile(i)
    \/ \E i \in 1..Len(syncPasses) : WriteFile(i)
    \/ \E i \in 1..Len(syncPasses) : AutoSyncCompleted(i)
    \/ Tick

\* a single set, and then the event loop alone
NextOneSet ==
    \/ \E input \in SetInputs, value \in {"x", "y"} :
          calls = 0 /\ SetCall(input[1], input[2], value)
    \/ EventLoop

\* nothing of the two sync directions is pending: the states in which no step
\* of the event loop is possible
EventLoopIdle ==
    /\ autoSyncTimeout = NoTimeout
    /\ syncPasses = <<>>
    /\ watchTimer = NoWatch
    /\ watchTasks = {}
    /\ \A p \in Paths : fsEvents[p] = NoTimeout /\ processedFiles[p] = NoTimeout
    /\ sinceCall = AutoSyncDelay

\* the event loop runs what is pending: weak fairness of EventLoop, with the
\* states that enable it written out as ~EventLoopIdle
SpecOneSet ==
    /\ InitSync
    /\ [][NextOneSet]_vars
    /\ ([]<>EventLoopIdle \/ []<><<EventLoop>>_syncVars)

----------------------------------------------------------------------------

\* C21: the siblings getContext(k) returns are exactly the other keys with
\* k's parent that have a translation left after the language filter, the
\* other top-level keys when k has no parent, and never k itself.
C21_SiblingsShareParent ==
    (ret.op = "getContext" /\ ret.out.found)
        => {ret.out.siblings[i].keyPath : i \in 1..Len(ret.out.siblings)}
             = {other \in DOMAIN flatIndex \ {ret.key} :
                  /\ getParent(other) = getParent(ret.key)
                  /\ \E l \in DOMAIN flatIndex[other] :
                        ~ret.options.filtered \/ l \in ret.options.languages}

\* C22: with autoSync on, once no timer, watcher call or sync pass is pending,
\* the value of every entry that a set call left in the index is in the file
\* of its language at the key's path, unless that file was edited from
\* outside or the key has a structural conflict in it; a fileProcessed event
\* for the file of another language before the timer fires does not prevent
\* this.  (A burst that ended in a sync pass is left out: its write may have
\* failed.)
C22_SetReachesFile ==
    (/\ autoSync /\ autoSyncTimeout = NoTimeout /\ syncPasses = <<>>
     /\ watchTasks = {} /\ watchTimer = NoWatch
     /\ \A p \in Paths : fsEvents[p] = NoTimeout
     /\ ~burst.fired)
        => \A k \in DOMAIN flatIndex : \A l \in DOMAIN flatIndex[k] :
              (/\ flatIndex[k][l].file = NoPath
               /\ (l = En => edits = 0)
               /\ ~StructuralConflict(files[FilePath(l)], k))
                 => NodeAt(files[FilePath(l)], Split(k)) = StringNode(flatIndex[k][l].value)

\* C23: the pre-validation of auto-sync skips a language exactly when, for
\* one of its keys, a proper prefix of the key path is a scalar of the file;
\* a key whose full path is a scalar leaf of the file does not make the
\* language skipped.
C23_ConflictIsProperPrefix ==
    (ret.op = "syncLanguageToFile" /\ serverSource = PreValidating)
        => (ret.out = "skipped" <=> ret.blocked)

\* C24: a tool operation that reads the index while a refresh is re-reading
\* the files sees the index as it was before the refresh or as the refresh
\* leaves it (the files it has still to load being loaded), never a part of
\* it.
C24_NoPartialIndex ==
    (ret.op = "validateStructure" /\ loader.by = "refresh")
        => \/ flatIndex = loader.before
           \/ flatIndex = Store(initializeIndex(Current,
                                SelectSeq(loader.files,
                                          LAMBDA p : processedFiles[p] = NoTimeout),
                                files))

\* C25: a batchUpdate that fails and is rolled back emits no set, delete or
\* batchUpdate event, so that no observer and no auto-sync hears of it.
C25_RolledBackBatchSilent ==
    (ret.op = "batchUpdate" /\ ret.out = FALSE)
        => \A i \in 1..Len(events) : events[i] \notin {"set", "delete", "batchUpdate"}

\* C26: once the auto-sync pass that follows a delete has run and nothing is
\* pending, no language file that nobody edited from outside holds a key
\* that the index lacks for the file's language: the deleted key is gone from
\* the file, so that no refresh or re-parse of the file can bring it back.
C26_DeletedStaysDeleted ==
    (/\ autoSync /\ burst.fired /\ autoSyncTimeout = NoTimeout /\ syncPasses = <<>>
     /\ watchTasks = {} /\ watchTimer = NoWatch
     /\ \A p \in Paths : fsEvents[p] = NoTimeout
     /\ edits = 0)
        => \A p \in Paths : \A k \in LeafKeys(files[p]) :
              has(k, extractLanguageFromPath(p))

\* C27: a fileProcessed event leaves no auto-sync timer pending; a sync pass
\* starts only when the timer fires, and a timer is only set, with the full
\* delay, by a set or delete: the mutations made before the event cause no
\* pass.
C27_FileProcessedCancels ==
    /\ [][ret'.op = "fileProcessed" => autoSyncTimeout' = NoTimeout]_vars
    /\ [][Len(syncPasses') > Len(syncPasses)
            => autoSyncTimeout = 0 /\ autoSyncTimeout' = NoTimeout]_vars
    /\ [][(autoSyncTimeout = NoTimeout /\ autoSyncTimeout' # NoTimeout)
            => ret'.op \in {"set", "delete"} /\ autoSyncTimeout' = AutoSyncDelay]_vars

C27_Witness ==
    /\ ret.op = "fileProcessed" /\ autoSyncTimeout = NoTimeout
    /\ burst.calls >= 1 /\ ~burst.fired /\ ~burst.clean

\* C28: at most one auto-sync pass is in progress at any time, also when set
\* calls arrive while a pass awaits its file operations.
C28_PassesNeverOverlap == Len(syncPasses) <= 1

\* C29: once stop has resolved, no timer of the sync engine is pending, and
\* neither the index nor a translation file changes again
C29_StoppedIsFinal ==
    /\ [](stopped => (autoSyncTimeout = NoTimeout /\ watchTimer = NoWatch))
    /\ [][stopped => (flatIndex' = flatIndex /\ files' = files)]_vars

====
